---- MODULE Spec2Model ----
(***************************************************************************)
(* A model of the duel room of src/main.py: one Room, the websocket        *)
(* handlers of its clients, the card bookkeeping, the number builder, the  *)
(* primality test and the composite evaluator.                             *)
(*                                                                         *)
(* Every handler is cut into the segments that run between two sends that  *)
(* are followed by a read or a write of room state: asyncio runs a segment *)
(* without interruption and may run another client's handler at a send.    *)
(* Sends that are followed by no access to room state are folded into the  *)
(* segment before them.  pc[p] is the position of client p's handler.      *)
(*                                                                         *)
(* ev is the last game message a handler broadcast (its type, the client   *)
(* whose handler sent it, the cards and the client it names).  A command   *)
(* that is refused with an error message to its sender changes nothing:    *)
(* it is a step that leaves every variable as it is.                       *)
(***************************************************************************)
EXTENDS Integers, Sequences, FiniteSets, TLC

(***************************************************************************)
(* Bounds of the model.                                                    *)
(***************************************************************************)
\* cards generate_deck builds per deck (54 in the source)
DeckSize == 6
\* rule.hand_size of the room's preset (5, 7 or 11 in the source)
HandSize == 2
\* decks generated in one behaviour (start_game may run any number of times)
MaxDeals == 2
\* longest card list a play command carries
MaxPlay == 2
\* longest token stream a composite play carries
MaxTokens == 3
\* join_room commands handled in one behaviour
MaxJoins == 3
\* commands that change the room, handled in one behaviour
MaxCmds == 8
\* orderings random.shuffle produces in the model
NumShuffles == 2
\* the largest value the composite evaluator tells apart from larger ones
ValueCap == 100000
\* longest token stream handed to the evaluator on its own
MaxEvalTokens == 5

\* the largest argument of is_prime on its own
MaxPrimeArg == 10000

\* the connected clients (one Player object and one handler task each),
\* named in the order of their first join_room
Clients == {"A", "B", "C"}
JoinOrder == <<"A", "B", "C">>

\* current_turn_id = None
NoOne == "none"
\* the joker assignment "inf", kept apart from the integers a joker may stand for
INF == -1
\* values a client assigns to a joker in the commands of the model (the
\* handlers take any value that str() and int() take: 172 before a 9 reads 1729)
Assignable == {0, 3, 5, 172, INF}

(***************************************************************************)
(* Cards.  A card is its card_id; generate_deck gives every deck fresh     *)
(* ids, so card c of deal e is (e-1)*DeckSize + index.  Rank and suit are  *)
(* read from the pool below ("X" with rank 0 is a Joker).                  *)
(***************************************************************************)
PoolRank == <<5, 1, 7, 0, 2, 9, 3, 0, 4>>
PoolSuit == <<"S", "D", "H", "X", "D", "C", "S", "X", "H">>

CardIds == 1..(DeckSize * MaxDeals)
Idx(c) == ((c - 1) % DeckSize) + 1
Rank(c) == PoolRank[Idx(c)]
Suit(c) == PoolSuit[Idx(c)]
IsJoker(c) == Suit(c) = "X"

Range(s) == {s[i] : i \in 1..Len(s)}
Min(a, b) == IF a < b THEN a ELSE b

\* number of occurrences of x in sequence s
Count(s, x) == Cardinality({i \in 1..Len(s) : s[i] = x})

\* all sequences over S of length at most n
RECURSIVE SeqsUpTo(_, _)
SeqsUpTo(S, n) ==
    IF n = 0 THEN {<<>>}
    ELSE LET shorter == SeqsUpTo(S, n - 1)
         IN  shorter \cup {Append(s, x) : s \in {t \in shorter : Len(t) = n - 1}, x \in S}

(***************************************************************************)
(* is_prime (src/main.py 18-58).  Numbers of the model stay below 2^64,    *)
(* so the deterministic branch decides.                                    *)
(***************************************************************************)
SMALL_PRIMES == <<2, 3, 5, 7, 11, 13, 17, 19, 23, 29, 31, 37>>

RECURSIVE MulMod(_, _, _)
MulMod(a, b, n) ==
    IF n < 46341 THEN (a * b) % n
    ELSE IF b = 0 THEN 0
    ELSE LET h == MulMod(a, b \div 2, n)
             d == (h + h) % n
         IN  IF b % 2 = 1 THEN (d + a) % n ELSE d

RECURSIVE PowMod(_, _, _)
PowMod(a, e, n) ==
    IF e = 0 THEN 1 % n
    ELSE LET h == PowMod(a, e \div 2, n)
             sq == MulMod(h, h, n)
         IN  IF e % 2 = 1 THEN MulMod(sq, a % n, n) ELSE sq

\* s with m = d * 2^s, d odd  (lsb = m & -m; s = lsb.bit_length() - 1)
RECURSIVE TwoAdicity(_)
TwoAdicity(m) == IF m % 2 = 1 THEN 0 ELSE 1 + TwoAdicity(m \div 2)

RECURSIVE OddPart(_)
OddPart(m) == IF m % 2 = 1 THEN m ELSE OddPart(m \div 2)

\* the loop "for _ in range(s - 1)" of check(a), from x
RECURSIVE SquareLoop(_, _, _)
SquareLoop(x, rounds, n) ==
    IF rounds <= 0 THEN FALSE
    ELSE LET y == MulMod(x, x, n)
         IN  IF y = n - 1 THEN TRUE ELSE SquareLoop(y, rounds - 1, n)

\* check(a) with the rounds left out
MRCheck_always(a, d, s, n) == TRUE

MRCheck(a, d, s, n) ==
    LET x == PowMod(a, d, n)
    IN  IF x = 1 \/ x = n - 1 THEN TRUE ELSE SquareLoop(x, s - 1, n)

\* the first small prime that settles n: <<TRUE, answer>>, or <<FALSE, _>>
RECURSIVE SmallPrimeScan(_, _)
SmallPrimeScan(n, i) ==
    IF i > Len(SMALL_PRIMES) THEN <<FALSE, FALSE>>
    ELSE IF n = SMALL_PRIMES[i] THEN <<TRUE, TRUE>>
    ELSE IF n % SMALL_PRIMES[i] = 0 THEN <<TRUE, FALSE>>
    ELSE SmallPrimeScan(n, i + 1)

is_prime(n) ==
    IF n < 2 THEN FALSE
    ELSE LET scan == SmallPrimeScan(n, 1)
         IN  IF scan[1] THEN scan[2]
             ELSE LET s == TwoAdicity(n - 1)
                      d == OddPart(n - 1)
                  IN  \A i \in 1..Len(SMALL_PRIMES) : MRCheck(SMALL_PRIMES[i], d, s, n)

(***************************************************************************)
(* Number building: "".join(str(rank)) read as an integer.                 *)
(***************************************************************************)
\* 10^(number of decimal digits of v), for v >= 0
RECURSIVE Shift(_)
Shift(v) == IF v < 10 THEN 10 ELSE 10 * Shift(v \div 10)

\* int("".join(str(v) for v in vals)) for a non-empty list of values >= 0
RECURSIVE JoinInt(_)
JoinInt(vals) ==
    IF Len(vals) = 0 THEN 0
    ELSE LET k == Len(vals)
             front == JoinInt(SubSeq(vals, 1, k - 1))
         IN  front * Shift(vals[k]) + vals[k]

\* "".join(...).startswith("0")
StartsWithZero(vals) == Len(vals) > 0 /\ vals[1] = 0


(***************************************************************************)
(* State.                                                                  *)
(***************************************************************************)
VARIABLES
    players,          \* room.players: the clients in the room, in list order
    status,           \* Player.status of every client
    hand,             \* Player.hand of every client (kept after leave_room)
    state,            \* room.state: "waiting" (idle) or "playing" (active)
    deck,             \* room.deck, front first
    field,            \* room.field
    reserve,          \* room.reserve
    last_number,      \* room.last_number: <<>> for None, <<n>> for n
    current_turn_id,  \* room.current_turn_id
    has_drawn,        \* room.has_drawn
    reverse_order,    \* room.reverse_order
    rule,             \* room.rule: [deck_rule, penalty_rule] of the preset
    deals,            \* decks generated so far (freshness of card ids)
    joins,            \* join_room commands handled so far
    cmds,             \* commands handled so far that changed the room
    pc,               \* position of every client's handler
    ev,               \* the last message produced
    expr,             \* the token stream handed to parse_and_eval_composite
    result,           \* what parse_and_eval_composite made of expr
    num,              \* the argument handed to is_prime
    answer            \* what is_prime made of num

vars == <<players, status, hand, state, deck, field, reserve, last_number,
          current_turn_id, has_drawn, reverse_order, rule, deals, joins, cmds, pc, ev,
          expr, result, num, answer>>

\* the presets of rules.py, by deck rule and penalty rule
Presets ==
    { [deck_rule |-> "DEFAULT", penalty_rule |-> "ALWAYS_1"],
      [deck_rule |-> "EVEN_HALVED", penalty_rule |-> "SAME_AS_PLAYED"] }

\* a message: its type, the client whose handler produced it, the played
\* cards it names, the consume list of the command, and the client it names
\* (the winner, the next turn holder); draws counts the "draw" messages
\* since the last game_start or next_turn message
Message(t, k, p, cs, con, w) ==
    [type |-> t, kind |-> k, player |-> p, cards |-> cs, consume |-> con, who |-> w,
     draws |-> IF t \in {"init", "game_start", "next_turn"} THEN 0
               ELSE IF t = "draw" THEN ev.draws + 1
               ELSE ev.draws]
Event(t, p) == Message(t, "", p, <<>>, <<>>, NoOne)
EventC(t, p, cs) == Message(t, "", p, cs, <<>>, NoOne)
EventW(t, p, w) == Message(t, "", p, <<>>, <<>>, w)

\* Room.__init__ and Player.__init__
Init ==
    /\ players = <<>>
    /\ status = [p \in Clients |-> "watching"]
    /\ hand = [p \in Clients |-> <<>>]
    /\ state = "waiting"
    /\ deck = <<>>
    /\ field = <<>>
    /\ reserve = <<>>
    /\ last_number = <<>>
    /\ current_turn_id = NoOne
    /\ has_drawn = FALSE
    /\ reverse_order = FALSE
    /\ rule \in Presets
    /\ deals = 0
    /\ joins = 0
    /\ cmds = 0
    /\ pc = [p \in Clients |-> "idle"]
    /\ ev = Event("init", NoOne)
    /\ expr = <<>>
    /\ result = [status |-> "none", value |-> 0]
    /\ num = 0
    /\ answer = "none"

(***************************************************************************)
(* Player and Room helpers.                                                *)
(***************************************************************************)
InRoom(p) == p \in Range(players)

\* [p for p in room.players if p.status == "waiting"]
WaitingPlayers == SelectSeq(players, LAMBDA q : status[q] = "waiting")

\* list.sort(key=rank) is stable: insert c after the cards of rank <= Rank(c)
RECURSIVE InsertByRank(_, _)
InsertByRank(h, c) ==
    IF h = <<>> THEN <<c>>
    ELSE IF Rank(h[Len(h)]) <= Rank(c) THEN Append(h, c)
    ELSE Append(InsertByRank(SubSeq(h, 1, Len(h) - 1), c), h[Len(h)])

RECURSIVE sort_hand(_)
sort_hand(h) ==
    IF h = <<>> THEN <<>>
    ELSE InsertByRank(sort_hand(SubSeq(h, 1, Len(h) - 1)), h[Len(h)])

add_card(h, c) == sort_hand(Append(h, c))

\* list.remove: the first occurrence goes; nothing happens when absent
RECURSIVE remove_card(_, _)
remove_card(h, c) ==
    IF h = <<>> THEN <<>>
    ELSE IF Head(h) = c THEN Tail(h)
    ELSE <<Head(h)>> \o remove_card(Tail(h), c)

RECURSIVE has_cards(_, _)
has_cards(h, cards) ==
    IF cards = <<>> THEN TRUE
    ELSE IF Head(cards) \in Range(h) THEN has_cards(remove_card(h, Head(cards)), Tail(cards))
    ELSE FALSE

\* "for c in cards: player.remove_card(c)"
RECURSIVE remove_each(_, _)
remove_each(h, cards) ==
    IF cards = <<>> THEN h
    ELSE remove_each(remove_card(h, Head(cards)), Tail(cards))

\* the penalty loop: k times, "if room.deck: player.add_card(room.deck.pop(0))";
\* the result is <<hand, deck>>
RECURSIVE penalty_draw(_, _, _)
penalty_draw(h, d, k) ==
    IF k = 0 \/ d = <<>> THEN <<h, d>>
    ELSE penalty_draw(add_card(h, Head(d)), Tail(d), k - 1)

\* penalty_cards that ignores the rule of the room
penalty_cards_one(n) == 1

penalty_cards(n) == IF rule.penalty_rule = "ALWAYS_1" THEN 1 ELSE n

\* a push that puts the played cards in front of the reserve
push_to_reserve_front(res, cards) == cards \o res

\* push_to_reserve
push_to_reserve(res, cards) == res \o cards

\* a win check without the rule of the sole remaining player
check_win_condition_no_sole ==
    IF current_turn_id = NoOne THEN NoOne
    ELSE IF InRoom(current_turn_id) /\ hand[current_turn_id] = <<>> THEN current_turn_id
    ELSE NoOne

\* check_win_condition: the winner, or NoOne
check_win_condition ==
    IF Len(players) = 1 THEN players[1]
    ELSE IF current_turn_id = NoOne THEN NoOne
    ELSE IF InRoom(current_turn_id) /\ hand[current_turn_id] = <<>> THEN current_turn_id
    ELSE NoOne


\* a rotation that always restarts at the first waiting player
Rotate_first(active, cur) == active[1]

\* the new holder next_turn chooses among the waiting players
Rotate(active, cur) ==
    LET idx == {i \in 1..Len(active) : active[i] = cur}
    IN  IF idx = {} THEN active[1]
        ELSE LET current_idx == CHOOSE i \in idx : \A j \in idx : i <= j
             IN  active[(current_idx % Len(active)) + 1]

\* next_turn(room), run by the handler of client p
next_turn(p) ==
    /\ has_drawn' = FALSE
    /\ IF Len(WaitingPlayers) < 2
       THEN UNCHANGED <<state, current_turn_id, ev>>
       ELSE IF check_win_condition # NoOne
       THEN /\ state' = "waiting"
            /\ ev' = EventW("game_over", p, check_win_condition)
            /\ UNCHANGED current_turn_id
       ELSE /\ current_turn_id' = Rotate(WaitingPlayers, current_turn_id)
            /\ ev' = EventW("next_turn", p, Rotate(WaitingPlayers, current_turn_id))
            /\ UNCHANGED state

\* Room.try_end_game, run by the handler of client p after a cut or a flush
try_end_game(p) ==
    IF check_win_condition # NoOne
    THEN /\ state' = "waiting"
         /\ ev' = EventW("game_over", p, check_win_condition)
    ELSE UNCHANGED <<state, ev>>

\* a flow_field that returns the reserve twice
flow_field_twice(d, res) == d \o res \o res

\* flow_field: <<deck, field, last_number, reserve>> afterwards
flow_field(d, res) == d \o res

(***************************************************************************)
(* Deck building and dealing.                                              *)
(***************************************************************************)
\* generate_deck: DeckSize fresh cards, as deal number e
generate_deck(e) == [i \in 1..DeckSize |-> (e - 1) * DeckSize + i]

\* build_deck: under EVEN_HALVED the even cards of suits D and H go
build_deck(e) ==
    IF rule.deck_rule = "EVEN_HALVED"
    THEN SelectSeq(generate_deck(e),
                   LAMBDA c : ~(~IsJoker(c) /\ Rank(c) % 2 = 0 /\ Suit(c) \in {"D", "H"}))
    ELSE generate_deck(e)

\* random.shuffle, restricted to the rotations of the list
Rotation(s, r) == [i \in 1..Len(s) |-> s[((i - 1 + r) % Len(s)) + 1]]
Shuffles(s) ==
    IF s = <<>> THEN {<<>>}
    ELSE {Rotation(s, r) : r \in 0..(Min(NumShuffles, Len(s)) - 1)}

\* a deal that gives the second hand the cards of the first
deal_same(d, hand_n) ==
    LET total == IF Len(d) < hand_n * 2 THEN Len(d) - (Len(d) % 2) ELSE hand_n * 2
        n == total \div 2
    IN  << [r \in 1..n |-> d[2 * r - 1]],
           [r \in 1..n |-> d[2 * r - 1]],
           SubSeq(d, total + 1, Len(d)) >>

\* shuffle_and_deal after the shuffle: <<hands[0], hands[1], remaining>>
deal(d, hand_n) ==
    LET total == IF Len(d) < hand_n * 2 THEN Len(d) - (Len(d) % 2) ELSE hand_n * 2
        n == total \div 2
    IN  << [r \in 1..n |-> d[2 * r - 1]],
           [r \in 1..n |-> d[2 * r]],
           SubSeq(d, total + 1, Len(d)) >>

(***************************************************************************)
(* Handlers of websocket_endpoint.  A client whose handler is idle and     *)
(* in no room sends join_room; every other command needs player.room.      *)
(***************************************************************************)
Idle(p) == pc[p] = "idle"

\* join_room: the room is never full with the clients of the model; log_chat
\* is sent before the player is added
Join(p) ==
    /\ Idle(p) /\ ~InRoom(p) /\ joins < MaxJoins /\ cmds < MaxCmds
    /\ joins < Len(JoinOrder) => p = JoinOrder[joins + 1]
    /\ pc' = [pc EXCEPT ![p] = "join_wait"]
    /\ joins' = joins + 1
    /\ cmds' = cmds + 1
    /\ UNCHANGED <<players, status, hand, state, deck, field, reserve, last_number,
                   current_turn_id, has_drawn, reverse_order, rule, expr, result, num, answer, deals, ev>>

\* join_room after log_chat: room.players.append(player), status "watching"
JoinResume(p) ==
    /\ pc[p] = "join_wait"
    /\ players' = Append(players, p)
    /\ status' = [status EXCEPT ![p] = "watching"]
    /\ pc' = [pc EXCEPT ![p] = "idle"]
    /\ UNCHANGED <<hand, state, deck, field, reserve, last_number, current_turn_id,
                   has_drawn, reverse_order, rule, expr, result, num, answer, deals, joins, cmds, ev>>

\* change_status
ChangeStatus(p, new_status) ==
    /\ Idle(p) /\ InRoom(p) /\ cmds < MaxCmds
    /\ status[p] # new_status
    /\ status' = [status EXCEPT ![p] = new_status]
    /\ cmds' = cmds + 1
    /\ UNCHANGED <<players, hand, state, deck, field, reserve, last_number,
                   current_turn_id, has_drawn, reverse_order, rule, expr, result, num, answer, deals, joins, pc, ev>>

\* start_game with a number of waiting players other than two
StartRejected(p) ==
    /\ Idle(p) /\ InRoom(p)
    /\ Len(WaitingPlayers) # 2
    /\ UNCHANGED vars

\* start_game(room)
StartGame(p) ==
    /\ Idle(p) /\ InRoom(p)
    /\ Len(WaitingPlayers) = 2
    /\ deals < MaxDeals /\ cmds < MaxCmds
    /\ LET p1 == WaitingPlayers[1]
           p2 == WaitingPlayers[2]
       IN  \E d \in Shuffles(build_deck(deals + 1)), first \in {p1, p2} :
              LET dealt == deal(d, HandSize)
              IN  /\ hand' = [hand EXCEPT ![p1] = sort_hand(dealt[1]),
                                          ![p2] = sort_hand(dealt[2])]
                  /\ deck' = dealt[3]
                  /\ current_turn_id' = first
    /\ reverse_order' = FALSE
    /\ has_drawn' = FALSE
    /\ reserve' = <<>>
    /\ field' = <<>>
    /\ last_number' = <<>>
    /\ state' = "playing"
    /\ deals' = deals + 1
    /\ cmds' = cmds + 1
    /\ ev' = Event("game_start", p)
    /\ UNCHANGED <<players, status, rule, expr, result, num, answer, joins, pc>>

\* play_card, draw_card and pass from a client that does not hold the turn
NotYourTurn(p) ==
    /\ Idle(p) /\ InRoom(p)
    /\ p # current_turn_id
    /\ UNCHANGED vars

\* draw_card refused: already drawn this turn
DrawRefused(p) ==
    /\ Idle(p) /\ InRoom(p)
    /\ p = current_turn_id
    /\ has_drawn = TRUE
    /\ UNCHANGED vars

\* draw_card: the card moves, then the handler sends before it sets has_drawn
Draw(p) ==
    /\ Idle(p) /\ InRoom(p)
    /\ p = current_turn_id
    /\ has_drawn = FALSE
    /\ cmds < MaxCmds
    /\ IF Len(deck) > 0
       THEN /\ hand' = [hand EXCEPT ![p] = add_card(hand[p], Head(deck))]
            /\ deck' = Tail(deck)
            /\ pc' = [pc EXCEPT ![p] = "draw_wait"]
            /\ cmds' = cmds + 1
            /\ ev' = EventC("draw", p, <<Head(deck)>>)
       ELSE UNCHANGED <<hand, deck, pc, cmds, ev>>
    /\ UNCHANGED <<players, status, state, field, reserve, last_number,
                   current_turn_id, has_drawn, reverse_order, rule, expr, result, num, answer, deals, joins>>

\* draw_card after its sends: room.has_drawn = True
DrawResume(p) ==
    /\ pc[p] = "draw_wait"
    /\ has_drawn' = TRUE
    /\ pc' = [pc EXCEPT ![p] = "idle"]
    /\ UNCHANGED <<ev, players, status, hand, state, deck, field, reserve,
                   last_number, current_turn_id, reverse_order, rule, expr, result, num, answer, deals, joins, cmds>>

\* pass: the turn check, then send_hand_update
Pass(p) ==
    /\ Idle(p) /\ InRoom(p)
    /\ p = current_turn_id
    /\ cmds < MaxCmds
    /\ pc' = [pc EXCEPT ![p] = "pass_pre"]
    /\ cmds' = cmds + 1
    /\ UNCHANGED <<ev, players, status, hand, state, deck, field, reserve,
                   last_number, current_turn_id, has_drawn, reverse_order, rule, expr, result, num, answer, deals, joins>>

\* pass: flow_field(room), then the sends before next_turn
PassFlow(p) ==
    /\ pc[p] = "pass_pre"
    /\ deck' = flow_field(deck, reserve)
    /\ field' = <<>>
    /\ last_number' = <<>>
    /\ reserve' = <<>>
    /\ pc' = [pc EXCEPT ![p] = "turn_wait"]
    /\ ev' = Event("pass", p)
    /\ UNCHANGED <<players, status, hand, state, current_turn_id, has_drawn,
                   reverse_order, rule, expr, result, num, answer, deals, joins, cmds>>

\* the next_turn(room) that ends a play or a pass
TurnResume(p) ==
    /\ pc[p] = "turn_wait"
    /\ next_turn(p)
    /\ pc' = [pc EXCEPT ![p] = "idle"]
    /\ UNCHANGED <<players, status, hand, deck, field, reserve, last_number,
                   reverse_order, rule, expr, result, num, answer, deals, joins, cmds>>

\* the try_end_game that ends a cut or a joker flush
WinCheckResume(p) ==
    /\ pc[p] = "win_wait"
    /\ try_end_game(p)
    /\ pc' = [pc EXCEPT ![p] = "idle"]
    /\ UNCHANGED <<players, status, hand, deck, field, reserve, last_number,
                   current_turn_id, has_drawn, reverse_order, rule, expr, result, num, answer, deals, joins, cmds>>

\* leave_room: the player leaves the list, then log_chat is sent
Leave(p) ==
    /\ Idle(p) /\ InRoom(p) /\ cmds < MaxCmds
    /\ players' = remove_card(players, p)
    /\ pc' = [pc EXCEPT ![p] = "leave_wait"]
    /\ cmds' = cmds + 1
    /\ UNCHANGED <<ev, status, hand, state, deck, field, reserve, last_number,
                   current_turn_id, has_drawn, reverse_order, rule, expr, result, num, answer, deals, joins>>

\* leave_room after log_chat: the special handling during a game
LeaveResume(p) ==
    /\ pc[p] = "leave_wait"
    /\ IF state = "playing" /\ Len(players) = 1
       THEN /\ pc' = [pc EXCEPT ![p] = "leave_win"]
            /\ ev' = EventW("game_over", p, players[1])
            /\ UNCHANGED <<state, current_turn_id, has_drawn>>
       ELSE IF state = "playing" /\ current_turn_id = p
       THEN /\ next_turn(p)
            /\ pc' = [pc EXCEPT ![p] = "idle"]
       ELSE /\ pc' = [pc EXCEPT ![p] = "idle"]
            /\ UNCHANGED <<state, current_turn_id, has_drawn, ev>>
    /\ UNCHANGED <<players, status, hand, deck, field, reserve, last_number,
                   reverse_order, rule, expr, result, num, answer, deals, joins, cmds>>

\* leave_room after the game_over broadcast: room.state = "waiting"
LeaveWin(p) ==
    /\ pc[p] = "leave_win"
    /\ state' = "waiting"
    /\ pc' = [pc EXCEPT ![p] = "idle"]
    /\ UNCHANGED <<ev, players, status, hand, deck, field, reserve, last_number,
                   current_turn_id, has_drawn, reverse_order, rule, expr, result, num, answer, deals, joins, cmds>>


(***************************************************************************)
(* play_card, prime mode: handle_prime_play.                               *)
(***************************************************************************)
\* play_card passes the checks of websocket_endpoint: the client is in a
\* room and holds the turn (and the behaviour has a command left)
CanPlay(p) ==
    /\ Idle(p) /\ InRoom(p)
    /\ p = current_turn_id
    /\ cmds < MaxCmds

\* the card lists a client sends: over its hand, the field and the deck's front
Sendable(p) ==
    Range(hand[p]) \cup Range(field) \cup (IF deck = <<>> THEN {} ELSE {Head(deck)})

Jokers(cards) == SelectSeq(cards, IsJoker)

\* the assigned_numbers sent with a card list: one value per joker, or none
AssignChoices(cards) ==
    LET n == Len(Jokers(cards))
    IN  {a \in SeqsUpTo(Assignable, n) : Len(a) = n} \cup {<<>>}

\* the effective ranks: every joker replaced, in order, by its assigned value
RECURSIVE EffectiveRanks(_, _)
EffectiveRanks(cards, assigned) ==
    IF cards = <<>> THEN <<>>
    ELSE IF IsJoker(Head(cards))
         THEN <<Head(assigned)>> \o EffectiveRanks(Tail(cards), Tail(assigned))
         ELSE <<Rank(Head(cards))>> \o EffectiveRanks(Tail(cards), assigned)

HasInf(assigned) == \E i \in 1..Len(assigned) : assigned[i] = INF

\* a reading of the empty card list as the prime 2
plain_number_empty_prime(cards) ==
    IF cards = <<>> THEN 2 ELSE JoinInt([i \in 1..Len(cards) |-> Rank(cards[i])])

\* the number of a play without jokers; int("") raises ValueError: -1
plain_number(cards) ==
    IF cards = <<>> THEN -1 ELSE JoinInt([i \in 1..Len(cards) |-> Rank(cards[i])])

\* the validation of handle_prime_play after the single-joker case:
\* "ok", or the check that fails
prime_validation(cards, assigned) ==
    LET jokers == Jokers(cards)
        bad_joker ==
            IF jokers = <<>> THEN "ok"
            ELSE IF Len(assigned) # Len(jokers) THEN "joker_count"
            ELSE IF HasInf(assigned) THEN "joker_inf"
            ELSE IF StartsWithZero(EffectiveRanks(cards, assigned)) THEN "leading_zero"
            ELSE "ok"
        number ==
            IF jokers = <<>> THEN plain_number(cards)
            ELSE JoinInt(EffectiveRanks(cards, assigned))
        field_number == IF last_number = <<>> THEN -1 ELSE last_number[1]
    IN  IF bad_joker # "ok" THEN bad_joker
        ELSE IF field = <<>> THEN "ok"
        ELSE IF Len(cards) # Len(field) THEN "card_count"
        ELSE IF ~reverse_order /\ number <= field_number THEN "not_greater"
        ELSE IF reverse_order /\ number >= field_number THEN "not_smaller"
        ELSE "ok"

prime_number(cards, assigned) ==
    IF Jokers(cards) = <<>> THEN plain_number(cards)
    ELSE JoinInt(EffectiveRanks(cards, assigned))

\* the cards are not in the hand: an error message, nothing changes
PrimeNotOwned(p, cards) ==
    /\ ~has_cards(hand[p], cards)
    /\ UNCHANGED vars

\* exactly one card, a joker: the field is flushed, whatever was assigned
PrimeJokerFlush(p, cards, assigned) ==
    /\ has_cards(hand[p], cards)
    /\ Len(cards) = 1 /\ IsJoker(cards[1])
    /\ hand' = [hand EXCEPT ![p] = remove_card(hand[p], cards[1])]
    /\ deck' = flow_field(deck, push_to_reserve(reserve, cards))
    /\ field' = <<>>
    /\ last_number' = <<>>
    /\ reserve' = <<>>
    /\ has_drawn' = FALSE
    /\ pc' = [pc EXCEPT ![p] = "win_wait"]
    /\ ev' = Message("joker_flush",
                      IF assigned = <<INF>> THEN "inf"
                      ELSE IF assigned = <<0>> THEN "zero" ELSE "not_inf",
                      p, cards, <<>>, NoOne)
    /\ cmds' = cmds + 1
    /\ UNCHANGED <<players, status, state, current_turn_id, reverse_order, rule, expr, result, num, answer,
                   deals, joins>>

NotSingleJoker(cards) == ~(Len(cards) = 1 /\ IsJoker(cards[1]))

\* a failed validation: the handler names "websocket", which handle_prime_play
\* does not define; the NameError ends the client's handler task
PrimeInvalid(p, cards, assigned) ==
    /\ has_cards(hand[p], cards)
    /\ NotSingleJoker(cards)
    /\ prime_validation(cards, assigned) # "ok"
    /\ pc' = [pc EXCEPT ![p] = "dead"]
    /\ ev' = Message("handler_died", prime_validation(cards, assigned),
                      p, <<>>, <<>>, NoOne)
    /\ cmds' = cmds + 1
    /\ UNCHANGED <<players, status, hand, state, deck, field, reserve, last_number,
                   current_turn_id, has_drawn, reverse_order, rule, expr, result, num, answer, deals, joins>>

PrimeValid(p, cards, assigned) ==
    /\ has_cards(hand[p], cards)
    /\ NotSingleJoker(cards)
    /\ prime_validation(cards, assigned) = "ok"

\* a cut that ends like an ordinary play, with next_turn
PrimeCut_advance(p, cards, assigned) ==
    /\ PrimeValid(p, cards, assigned)
    /\ prime_number(cards, assigned) = 57
    /\ hand' = [hand EXCEPT ![p] = remove_each(hand[p], cards)]
    /\ deck' = flow_field(deck, push_to_reserve(reserve, cards))
    /\ field' = <<>>
    /\ last_number' = <<>>
    /\ reserve' = <<>>
    /\ has_drawn' = FALSE
    /\ pc' = [pc EXCEPT ![p] = "turn_wait"]
    /\ ev' = EventC("cut", p, cards)
    /\ cmds' = cmds + 1
    /\ UNCHANGED <<players, status, state, current_turn_id, reverse_order, rule, expr, result, num, answer,
                   deals, joins>>

\* number == 57
PrimeCut(p, cards, assigned) ==
    /\ PrimeValid(p, cards, assigned)
    /\ prime_number(cards, assigned) = 57
    /\ hand' = [hand EXCEPT ![p] = remove_each(hand[p], cards)]
    /\ deck' = flow_field(deck, push_to_reserve(reserve, cards))
    /\ field' = <<>>
    /\ last_number' = <<>>
    /\ reserve' = <<>>
    /\ has_drawn' = FALSE
    /\ pc' = [pc EXCEPT ![p] = "win_wait"]
    /\ ev' = EventC("cut", p, cards)
    /\ cmds' = cmds + 1
    /\ UNCHANGED <<players, status, state, current_turn_id, reverse_order, rule, expr, result, num, answer,
                   deals, joins>>

\* a revolution that leaves reverse_order as it was
PrimeRevolution_no_flip(p, cards, assigned) ==
    /\ PrimeValid(p, cards, assigned)
    /\ prime_number(cards, assigned) = 1729
    /\ reserve' = push_to_reserve(reserve, cards)
    /\ hand' = [hand EXCEPT ![p] = remove_each(hand[p], cards)]
    /\ field' = cards
    /\ last_number' = <<1729>>
    /\ pc' = [pc EXCEPT ![p] = "turn_wait"]
    /\ ev' = EventC("revolution", p, cards)
    /\ cmds' = cmds + 1
    /\ UNCHANGED <<players, status, state, deck, current_turn_id, has_drawn, reverse_order,
                   rule, expr, result, num, answer, deals, joins>>

\* number == 1729
PrimeRevolution(p, cards, assigned) ==
    /\ PrimeValid(p, cards, assigned)
    /\ prime_number(cards, assigned) = 1729
    /\ reverse_order' = ~reverse_order
    /\ reserve' = push_to_reserve(reserve, cards)
    /\ hand' = [hand EXCEPT ![p] = remove_each(hand[p], cards)]
    /\ field' = cards
    /\ last_number' = <<1729>>
    /\ pc' = [pc EXCEPT ![p] = "turn_wait"]
    /\ ev' = EventC("revolution", p, cards)
    /\ cmds' = cmds + 1
    /\ UNCHANGED <<players, status, state, deck, current_turn_id, has_drawn, rule, expr, result, num, answer,
                   deals, joins>>

\* a penalty that takes the played cards out of the hand
PrimePenalty_discard(p, cards, assigned) ==
    /\ PrimeValid(p, cards, assigned)
    /\ prime_number(cards, assigned) \notin {57, 1729}
    /\ ~is_prime(prime_number(cards, assigned))
    /\ LET drawn == penalty_draw(hand[p], deck, penalty_cards(Len(cards)))
       IN  /\ hand' = [hand EXCEPT ![p] = remove_each(drawn[1], cards)]
           /\ deck' = flow_field(drawn[2], reserve)
    /\ field' = <<>>
    /\ last_number' = <<>>
    /\ reserve' = <<>>
    /\ pc' = [pc EXCEPT ![p] = "turn_wait"]
    /\ ev' = Message("penalty", "prime", p, cards, <<>>, NoOne)
    /\ cmds' = cmds + 1
    /\ UNCHANGED <<players, status, state, current_turn_id, has_drawn, reverse_order,
                   rule, expr, result, num, answer, deals, joins>>

\* not is_prime(number): the penalty
PrimePenalty(p, cards, assigned) ==
    /\ PrimeValid(p, cards, assigned)
    /\ prime_number(cards, assigned) \notin {57, 1729}
    /\ ~is_prime(prime_number(cards, assigned))
    /\ LET drawn == penalty_draw(hand[p], deck, penalty_cards(Len(cards)))
       IN  /\ hand' = [hand EXCEPT ![p] = drawn[1]]
           /\ deck' = flow_field(drawn[2], reserve)
    /\ field' = <<>>
    /\ last_number' = <<>>
    /\ reserve' = <<>>
    /\ pc' = [pc EXCEPT ![p] = "turn_wait"]
    /\ ev' = Message("penalty", "prime", p, cards, <<>>, NoOne)
    /\ cmds' = cmds + 1
    /\ UNCHANGED <<players, status, state, current_turn_id, has_drawn,
                   reverse_order, rule, expr, result, num, answer, deals, joins>>

\* an accepted prime whose cards reach the field but not the reserve
PrimeAccepted_lost(p, cards, assigned) ==
    /\ PrimeValid(p, cards, assigned)
    /\ prime_number(cards, assigned) \notin {57, 1729}
    /\ is_prime(prime_number(cards, assigned))
    /\ hand' = [hand EXCEPT ![p] = remove_each(hand[p], cards)]
    /\ field' = cards
    /\ last_number' = <<prime_number(cards, assigned)>>
    /\ pc' = [pc EXCEPT ![p] = "turn_wait"]
    /\ ev' = EventC("prime", p, cards)
    /\ cmds' = cmds + 1
    /\ UNCHANGED <<players, status, state, deck, reserve, current_turn_id, has_drawn,
                   reverse_order, rule, expr, result, num, answer, deals, joins>>

\* a prime: the cards go to the field
PrimeAccepted(p, cards, assigned) ==
    /\ PrimeValid(p, cards, assigned)
    /\ prime_number(cards, assigned) \notin {57, 1729}
    /\ is_prime(prime_number(cards, assigned))
    /\ reserve' = push_to_reserve(reserve, cards)
    /\ hand' = [hand EXCEPT ![p] = remove_each(hand[p], cards)]
    /\ field' = cards
    /\ last_number' = <<prime_number(cards, assigned)>>
    /\ pc' = [pc EXCEPT ![p] = "turn_wait"]
    /\ ev' = EventC("prime", p, cards)
    /\ cmds' = cmds + 1
    /\ UNCHANGED <<players, status, state, deck, current_turn_id, has_drawn,
                   reverse_order, rule, expr, result, num, answer, deals, joins>>

handle_prime_play(p, cards, assigned) ==
    \/ PrimeNotOwned(p, cards)
    \/ PrimeJokerFlush(p, cards, assigned)
    \/ PrimeInvalid(p, cards, assigned)
    \/ PrimeCut(p, cards, assigned)
    \/ PrimeRevolution(p, cards, assigned)
    \/ PrimePenalty(p, cards, assigned)
    \/ PrimeAccepted(p, cards, assigned)

\* play_card with mode "prime", from the turn holder
PlayPrime(p) ==
    /\ CanPlay(p)
    /\ \E cards \in SeqsUpTo(Sendable(p), MaxPlay) :
          \E assigned \in AssignChoices(cards) :
             handle_prime_play(p, cards, assigned)

(***************************************************************************)
(* play_card, composite mode: the evaluator and handle_composite_play.     *)
(***************************************************************************)
MAX_EXP == 12

\* a token of the composite expression: a card, or an operator ("*" is the
\* multiplication sign of the source, "^" the power sign)
CardToken(c) == [kind |-> "card", card |-> c, op |-> ""]
OpToken(o) == [kind |-> "op", card |-> 0, op |-> o]

\* min(b^e, cap) and min(a*b, cap): Python's integers do not overflow
RECURSIVE PowCap(_, _, _)
PowCap(b, e, cap) ==
    IF e = 0 THEN Min(1, cap)
    ELSE LET r == PowCap(b, e - 1, cap)
         IN  IF r >= cap THEN cap ELSE Min(r * b, cap)

MulCap(a, b, cap) ==
    IF a >= cap \/ b >= cap THEN cap
    ELSE IF b > 0 /\ a > cap \div b THEN cap
    ELSE Min(a * b, cap)

\* the alternation check of parse_and_eval_composite: the empty stream, the
\* first and last token, and the pairs from the second token on
composite_syntax_ok(tokens) ==
    /\ tokens # <<>>
    /\ tokens[1].kind = "card"
    /\ tokens[Len(tokens)].kind = "card"
    /\ \A j \in 2..(Len(tokens) - 1) : tokens[j].kind # tokens[j + 1].kind

\* the token stream cut at every operator o: the pieces between them
RECURSIVE SplitAt(_, _, _)
SplitAt(tokens, o, cur) ==
    IF tokens = <<>> THEN <<cur>>
    ELSE IF Head(tokens).kind = "op" /\ Head(tokens).op = o
         THEN <<cur>> \o SplitAt(Tail(tokens), o, <<>>)
         ELSE SplitAt(Tail(tokens), o, Append(cur, Head(tokens)))

\* build_int_from_cards for every group of a chunk, with the ranks of the tokens
GroupRanks(group, ranks) == [i \in 1..Len(group) |-> ranks[group[i].card]]

\* the exponent chain from the right: the exponent, or MAX_EXP + 1 once a
\* step exceeds MAX_EXP
RECURSIVE exp_chain(_)
exp_chain(exps) ==
    IF exps = <<>> THEN 1
    ELSE LET rest == exp_chain(Tail(exps))
             e == Head(exps)
         IN  IF rest > MAX_EXP \/ e > MAX_EXP THEN MAX_EXP + 1
             ELSE PowCap(e, rest, MAX_EXP + 1)

\* one chunk "base ^ exp ^ exp ...": [status, value]
eval_chunk(ch, ranks) ==
    LET groups == SplitAt(ch, "^", <<>>)
        ints == [i \in 1..Len(groups) |-> JoinInt(GroupRanks(groups[i], ranks))]
    IN  IF \E i \in 1..Len(groups) : groups[i] = <<>>
        THEN [status |-> "syntax", value |-> 0]
        ELSE IF \E i \in 1..Len(groups) : StartsWithZero(GroupRanks(groups[i], ranks))
        THEN [status |-> "error", value |-> 0]
        ELSE IF ints[1] < 2
        THEN [status |-> "syntax", value |-> 0]
        ELSE IF ~is_prime(ints[1])
        THEN [status |-> "math", value |-> 0]
        ELSE IF exp_chain(Tail(ints)) > MAX_EXP
        THEN [status |-> "math", value |-> 0]
        ELSE [status |-> "ok", value |-> PowCap(ints[1], exp_chain(Tail(ints)), ValueCap)]

\* the chunks in order: the first failure ends the evaluation
RECURSIVE eval_chunks(_, _, _)
eval_chunks(chunks, ranks, total) ==
    IF chunks = <<>> THEN [status |-> "ok", value |-> total]
    ELSE LET r == eval_chunk(Head(chunks), ranks)
         IN  IF r.status # "ok" THEN r
             ELSE eval_chunks(Tail(chunks), ranks, MulCap(total, r.value, ValueCap))

\* parse_and_eval_composite: "ok" with the value, "syntax" (CompositeSyntaxError),
\* "math" (CompositeMathError) or "error" (the CompositeError of
\* build_int_from_cards)
parse_and_eval_composite(tokens, ranks) ==
    IF ~composite_syntax_ok(tokens) THEN [status |-> "syntax", value |-> 0]
    ELSE LET chunks == SplitAt(tokens, "*", <<>>)
         IN  IF \E i \in 1..(Len(chunks) - 1) : chunks[i] = <<>>
             THEN [status |-> "syntax", value |-> 0]
             ELSE eval_chunks(chunks, ranks, 1)

\* list({c["card_id"]: c for c in cards}.values()): the first occurrences, in order
RECURSIVE Dedup(_)
Dedup(cards) ==
    IF cards = <<>> THEN <<>>
    ELSE LET front == Dedup(SubSeq(cards, 1, Len(cards) - 1))
             c == cards[Len(cards)]
         IN  IF c \in Range(front) THEN front ELSE Append(front, c)

\* the card tokens of a stream, and those that are jokers of the hand
TokenCards(tokens) ==
    LET ts == SelectSeq(tokens, LAMBDA t : t.kind = "card")
    IN  [i \in 1..Len(ts) |-> ts[i].card]
JokerTokens(h, tokens) ==
    SelectSeq(TokenCards(tokens), LAMBDA c : c \in Range(h) /\ IsJoker(c))

\* token_card_ranks: a joker stands for the value of its last occurrence
token_card_ranks(h, tokens, comp_assigned) ==
    LET jt == JokerTokens(h, tokens)
    IN  [c \in Range(TokenCards(tokens)) |->
            IF IsJoker(c)
            THEN comp_assigned[CHOOSE i \in 1..Len(jt) :
                                  jt[i] = c /\ \A j \in (i + 1)..Len(jt) : jt[j] # c]
            ELSE Rank(c)]

\* sel_number: int(sel_str) if sel_str else -1
sel_number(sel, sel_assigned) ==
    IF sel = <<>> THEN -1 ELSE JoinInt(EffectiveRanks(sel, sel_assigned))

\* handle_composite_play up to its verdict: the check that refuses the
\* command, or "penalty", or "accepted"
composite_verdict(p, sel, sel_assigned, con, tokens, comp_assigned) ==
    LET h == hand[p]
        field_number == IF last_number = <<>> THEN -1 ELSE last_number[1]
        number == sel_number(sel, sel_assigned)
        parsed == parse_and_eval_composite(tokens, token_card_ranks(h, tokens, comp_assigned))
    IN  IF ~has_cards(h, Dedup(sel \o con)) THEN "not_owned"
        ELSE IF Len(Jokers(sel)) # Len(sel_assigned) THEN "joker_count"
        ELSE IF HasInf(sel_assigned) THEN "joker_inf"
        ELSE IF Len(JokerTokens(h, tokens)) # Len(comp_assigned) \/ HasInf(comp_assigned)
        THEN "composite_joker"
        ELSE IF ~(Range(TokenCards(tokens)) \subseteq Range(h)) THEN "unknown_card"
        ELSE IF field # <<>> /\ Len(sel) # Len(field) THEN "card_count"
        ELSE IF StartsWithZero(EffectiveRanks(sel, sel_assigned)) THEN "leading_zero"
        ELSE IF field # <<>> /\ ~reverse_order /\ number <= field_number THEN "not_greater"
        ELSE IF field # <<>> /\ reverse_order /\ number >= field_number THEN "not_smaller"
        ELSE IF parsed.status = "syntax" THEN "syntax"
        ELSE IF parsed.status = "error" THEN "group_zero"
        ELSE IF parsed.status = "math" \/ parsed.value # number THEN "penalty"
        ELSE "accepted"

\* an outcome that takes a syntax error for a math error
composite_outcome_syntax_penalty(p, sel, sel_assigned, con, verdict) ==
    IF verdict \in {"penalty", "syntax"}
    THEN LET drawn == penalty_draw(hand[p], deck, penalty_cards(Len(sel)))
         IN  [verdict |-> verdict, hand |-> drawn[1],
              deck |-> flow_field(drawn[2], reserve),
              field |-> <<>>, reserve |-> <<>>, last_number |-> <<>>, pc |-> "turn_wait"]
    ELSE IF verdict = "accepted"
    THEN [verdict |-> verdict,
          hand |-> remove_each(hand[p], Dedup(sel \o con)),
          deck |-> deck \o SelectSeq(con, LAMBDA c : c \notin Range(sel)),
          field |-> sel,
          reserve |-> push_to_reserve(reserve, sel),
          last_number |-> <<sel_number(sel, sel_assigned)>>, pc |-> "turn_wait"]
    ELSE [verdict |-> verdict, hand |-> hand[p], deck |-> deck, field |-> field,
          reserve |-> reserve, last_number |-> last_number, pc |-> pc[p]]

\* an outcome that pushes the consumed cards to the reserve with the selected ones
composite_outcome_consume_reserve(p, sel, sel_assigned, con, verdict) ==
    IF verdict = "penalty"
    THEN LET drawn == penalty_draw(hand[p], deck, penalty_cards(Len(sel)))
         IN  [verdict |-> verdict, hand |-> drawn[1],
              deck |-> flow_field(drawn[2], reserve),
              field |-> <<>>, reserve |-> <<>>, last_number |-> <<>>, pc |-> "turn_wait"]
    ELSE IF verdict = "accepted"
    THEN [verdict |-> verdict,
          hand |-> remove_each(hand[p], Dedup(sel \o con)),
          deck |-> deck,
          field |-> sel,
          reserve |-> push_to_reserve(reserve, Dedup(sel \o con)),
          last_number |-> <<sel_number(sel, sel_assigned)>>, pc |-> "turn_wait"]
    ELSE [verdict |-> verdict, hand |-> hand[p], deck |-> deck, field |-> field,
          reserve |-> reserve, last_number |-> last_number, pc |-> pc[p]]

\* what handle_composite_play leaves behind under a verdict: the hand of p,
\* the piles, and where the handler of p stands ("turn_wait": before next_turn)
composite_outcome(p, sel, sel_assigned, con, verdict) ==
    IF verdict = "penalty"
    THEN LET drawn == penalty_draw(hand[p], deck, penalty_cards(Len(sel)))
         IN  [verdict |-> verdict, hand |-> drawn[1],
              deck |-> flow_field(drawn[2], reserve),
              field |-> <<>>, reserve |-> <<>>, last_number |-> <<>>, pc |-> "turn_wait"]
    ELSE IF verdict = "accepted"
    THEN [verdict |-> verdict,
          hand |-> remove_each(hand[p], Dedup(sel \o con)),
          deck |-> deck \o SelectSeq(con, LAMBDA c : c \notin Range(sel)),
          field |-> sel,
          reserve |-> push_to_reserve(reserve, sel),
          last_number |-> <<sel_number(sel, sel_assigned)>>, pc |-> "turn_wait"]
    ELSE [verdict |-> verdict, hand |-> hand[p], deck |-> deck, field |-> field,
          reserve |-> reserve, last_number |-> last_number, pc |-> pc[p]]

composite_result(p, sel, sel_assigned, con, tokens, comp_assigned) ==
    LET results == {composite_outcome(p, sel, sel_assigned, con, v) :
                       v \in {composite_verdict(p, sel, sel_assigned, con, tokens, comp_assigned)}}
    IN  CHOOSE r \in results : TRUE

\* the consume lists of the model: none, or the last card of the hand once or twice
ConsumeChoices(p) ==
    IF hand[p] = <<>> THEN {<<>>}
    ELSE LET b == hand[p][Len(hand[p])] IN {<<>>, <<b>>, <<b, b>>}

\* the assigned_numbers of the model for n jokers: none, or one value for all
UniformAssignChoices(n) ==
    {<<>>} \cup {[i \in 1..n |-> v] : v \in Assignable}

\* the token streams of the model for a selection and a consume list: the
\* selected cards in a row, the first and the last card around "^", and a
\* stream that begins with an operator
TokenChoices(sel, con) ==
    LET operands == sel \o con
        row == [i \in 1..Len(sel) |-> CardToken(sel[i])]
        x == operands[1]
        y == operands[Len(operands)]
        streams ==
            {row} \cup
            (IF operands = <<>> THEN {}
             ELSE {<<CardToken(x), OpToken("^"), CardToken(y)>>,
                   <<OpToken("*"), CardToken(x)>>})
    IN  {t \in streams : Len(t) <= MaxTokens}

\* the assigned_numbers sent with a token stream: none, or one value per joker
\* token, the value the selection assigns first (3 when it assigns none)
TokenAssignChoices(p, tokens, sel_assigned) ==
    LET n == Len(JokerTokens(hand[p], tokens))
        v == IF sel_assigned = <<>> THEN 3 ELSE sel_assigned[1]
    IN  {<<>>, [i \in 1..n |-> v]}

\* handle_composite_play: a refused command sends an error message to its
\* sender, a penalty and an accepted play end with the sends before next_turn
handle_composite_play(p, sel, sel_assigned, con, tokens, comp_assigned) ==
    \E r \in {composite_result(p, sel, sel_assigned, con, tokens, comp_assigned)} :
        /\ hand' = [hand EXCEPT ![p] = r.hand]
        /\ deck' = r.deck
        /\ field' = r.field
        /\ reserve' = r.reserve
        /\ last_number' = r.last_number
        /\ pc' = [pc EXCEPT ![p] = r.pc]
        /\ IF r.verdict = "penalty"
           THEN /\ ev' = Message("penalty", "composite", p, sel, con, NoOne)
                /\ cmds' = cmds + 1
           ELSE IF r.verdict = "accepted"
           THEN /\ ev' = Message("composite", "", p, sel, con, NoOne)
                /\ cmds' = cmds + 1
           ELSE UNCHANGED <<ev, cmds>>
        /\ UNCHANGED <<players, status, state, current_turn_id, has_drawn, reverse_order,
                       rule, expr, result, num, answer, deals, joins>>

\* the selected lists of the model: the cards of the hand, in any order and
\* with repetitions
SelectChoices(p) == SeqsUpTo(Range(hand[p]), MaxPlay)

\* play_card with mode "composite", from the turn holder
PlayComposite(p) ==
    /\ CanPlay(p)
    /\ \E sel \in SelectChoices(p), con \in ConsumeChoices(p) :
          \E sel_assigned \in UniformAssignChoices(Len(Jokers(sel))),
             tokens \in TokenChoices(sel, con) :
             \E comp_assigned \in TokenAssignChoices(p, tokens, sel_assigned) :
                handle_composite_play(p, sel, sel_assigned, con, tokens, comp_assigned)

Next ==
    \/ \E p \in Clients : Join(p)
    \/ \E p \in Clients : JoinResume(p)
    \/ \E p \in Clients : \E st \in {"watching", "waiting"} : ChangeStatus(p, st)
    \/ \E p \in Clients : StartRejected(p)
    \/ \E p \in Clients : StartGame(p)
    \/ \E p \in Clients : NotYourTurn(p)
    \/ \E p \in Clients : DrawRefused(p)
    \/ \E p \in Clients : Draw(p)
    \/ \E p \in Clients : DrawResume(p)
    \/ \E p \in Clients : Pass(p)
    \/ \E p \in Clients : PassFlow(p)
    \/ \E p \in Clients : TurnResume(p)
    \/ \E p \in Clients : WinCheckResume(p)
    \/ \E p \in Clients : Leave(p)
    \/ \E p \in Clients : LeaveResume(p)
    \/ \E p \in Clients : LeaveWin(p)
    \/ \E p \in Clients : PlayPrime(p)
    \/ \E p \in Clients : PlayComposite(p)

Spec == Init /\ [][Next]_vars

(***************************************************************************)
(* parse_and_eval_composite on its own: the token stream is drawn from     *)
(* the streams of at most MaxEvalTokens tokens, the room stays as          *)
(* Room.__init__ leaves it.  A card of this specification has its rank as  *)
(* its id, so token_card_ranks is the identity on EvalRanks.               *)
(***************************************************************************)
\* the ranks of the cards in the streams: small ranks and a king
EvalRanks == {1, 2, 3, 4, 13}

EvalTokens == {CardToken(c) : c \in EvalRanks} \cup {OpToken("*"), OpToken("^")}

EvalCardRanks == [c \in EvalRanks |-> c]

EvalInit ==
    /\ players = <<>>
    /\ status = [p \in Clients |-> "watching"]
    /\ hand = [p \in Clients |-> <<>>]
    /\ state = "waiting"
    /\ deck = <<>>
    /\ field = <<>>
    /\ reserve = <<>>
    /\ last_number = <<>>
    /\ current_turn_id = NoOne
    /\ has_drawn = FALSE
    /\ reverse_order = FALSE
    /\ rule = [deck_rule |-> "DEFAULT", penalty_rule |-> "ALWAYS_1"]
    /\ deals = 0
    /\ joins = 0
    /\ cmds = 0
    /\ pc = [p \in Clients |-> "idle"]
    /\ ev = [type |-> "init", kind |-> "", player |-> NoOne, cards |-> <<>>,
             consume |-> <<>>, who |-> NoOne, draws |-> 0]
    /\ expr \in SeqsUpTo(EvalTokens, MaxEvalTokens)
    /\ result = [status |-> "none", value |-> 0]
    /\ num = 0
    /\ answer = "none"

\* the call parse_and_eval_composite(comp_tokens, token_card_ranks, [])
Evaluate ==
    /\ result.status = "none"
    /\ result' = parse_and_eval_composite(expr, EvalCardRanks)
    /\ UNCHANGED <<players, status, hand, state, deck, field, reserve, last_number,
                   current_turn_id, has_drawn, reverse_order, rule, deals, joins, cmds,
                   pc, ev, expr, num, answer>>

EvalNext == Evaluate

EvalSpec == EvalInit /\ [][EvalNext]_vars

(***************************************************************************)
(* is_prime on its own: the argument is drawn from 0..MaxPrimeArg, the     *)
(* room stays as Room.__init__ leaves it.                                  *)
(***************************************************************************)
PrimeInit ==
    /\ players = <<>>
    /\ status = [p \in Clients |-> "watching"]
    /\ hand = [p \in Clients |-> <<>>]
    /\ state = "waiting"
    /\ deck = <<>>
    /\ field = <<>>
    /\ reserve = <<>>
    /\ last_number = <<>>
    /\ current_turn_id = NoOne
    /\ has_drawn = FALSE
    /\ reverse_order = FALSE
    /\ rule = [deck_rule |-> "DEFAULT", penalty_rule |-> "ALWAYS_1"]
    /\ deals = 0
    /\ joins = 0
    /\ cmds = 0
    /\ pc = [p \in Clients |-> "idle"]
    /\ ev = [type |-> "init", kind |-> "", player |-> NoOne, cards |-> <<>>,
             consume |-> <<>>, who |-> NoOne, draws |-> 0]
    /\ expr = <<>>
    /\ result = [status |-> "none", value |-> 0]
    /\ num \in 0..MaxPrimeArg
    /\ answer = "none"

\* the call is_prime(num)
Decide ==
    /\ answer = "none"
    /\ answer' = IF is_prime(num) THEN "prime" ELSE "composite"
    /\ UNCHANGED <<players, status, hand, state, deck, field, reserve, last_number,
                   current_turn_id, has_drawn, reverse_order, rule, deals, joins, cmds,
                   pc, ev, expr, result, num>>

PrimeNext == Decide

PrimeSpec == PrimeInit /\ [][PrimeNext]_vars

(***************************************************************************)
(* Properties.                                                             *)
(***************************************************************************)
\* the cards of the deck generated last
CurrentDeal == IF deals = 0 THEN {} ELSE Range(build_deck(deals))

\* occurrences of card c in the hands of all clients
HandCount(c) ==
    Cardinality(UNION {{<<p, i>> : i \in {j \in 1..Len(hand[p]) : hand[p][j] = c}}
                       : p \in Clients})

\* handler positions between the first send and the end of a play, draw,
\* pass, start_game, leave_room or change_status
Suspended(p) == pc[p] \notin {"idle", "dead", "join_wait"}

\* the step in which the handler of p takes the penalty path of a play (every
\* step from "idle" to the wait before next_turn or the win check sets ev)
PenaltyStep(p) ==
    /\ pc[p] = "idle" /\ pc'[p] \in {"turn_wait", "win_wait"}
    /\ ev'.type = "penalty" /\ ev'.player = p

\* the step in which the handler of p accepts a cut
CutStep(p) ==
    /\ pc[p] = "idle" /\ pc'[p] \in {"turn_wait", "win_wait"}
    /\ ev'.type = "cut" /\ ev'.player = p

\* the step in which the handler of p runs next_turn
NextTurnStep(p) ==
    \/ pc[p] = "turn_wait" /\ pc'[p] = "idle"
    \/ /\ pc[p] = "leave_wait" /\ pc'[p] = "idle"
       /\ state = "playing" /\ Len(players) # 1 /\ current_turn_id = p

\* no player has won: the room holds more than one player and the turn
\* holder, if in the room, has cards
NoWinner ==
    /\ Len(players) # 1
    /\ ~(InRoom(current_turn_id) /\ hand[current_turn_id] = <<>>)

\* the eligible player after cur in list order, cyclically; the first one when
\* cur is not eligible
Following(eligible, cur) ==
    IF \A i \in 1..Len(eligible) : eligible[i] # cur THEN eligible[1]
    ELSE LET i == CHOOSE j \in 1..Len(eligible) : eligible[j] = cur
         IN  IF i = Len(eligible) THEN eligible[1] ELSE eligible[i + 1]

C2_NoDuplication ==
    \A c \in CardIds : HandCount(c) + Count(deck, c) + Count(reserve, c) <= 1

C4_TurnOwnership ==
    [][\A p \in Clients, q \in Clients :
          (p # q /\ pc[q] = "turn_wait" /\ pc[p] = "idle" /\ cmds' = cmds + 1)
          => pc'[p] \notin {"turn_wait", "win_wait", "draw_wait", "pass_pre", "dead"}]_vars

\* C5: while a handler is suspended at a send, no play, draw, pass,
\* start_game, leave_room or change_status of the room is taken up.
C5_MutualExclusion ==
    [][(\E q \in Clients : Suspended(q)) => (cmds' = cmds \/ joins' # joins)]_vars

\* what C6 says of one composite command of client p
C6_Holds(p, sel, sel_assigned, con, tokens, comp_assigned) ==
    \A r \in {composite_result(p, sel, sel_assigned, con, tokens, comp_assigned)} :
        /\ r.verdict = "syntax" =>
              /\ r.hand = hand[p] /\ r.deck = deck /\ r.field = field
              /\ r.reserve = reserve /\ r.last_number = last_number
              /\ r.pc = "idle"
        /\ r.verdict = "penalty" =>
              LET k == IF rule.penalty_rule = "ALWAYS_1" THEN 1 ELSE Len(sel)
                  n == Min(k, Len(deck))
              IN  /\ Len(r.hand) = Len(hand[p]) + n
                  /\ r.deck = SubSeq(deck, n + 1, Len(deck)) \o reserve
                  /\ r.field = <<>> /\ r.reserve = <<>> /\ r.last_number = <<>>
                  /\ r.pc = "turn_wait"

\* C6: for every composite command the turn holder sends, a syntax error
\* leaves the hand, the piles and the handler as they are, and a math error
\* draws the penalty, flushes field and reserve to the deck and goes on to
\* next_turn.
C6_SyntaxFreeMathPenalty ==
    \A p \in Clients : CanPlay(p) =>
        \A sel \in SelectChoices(p), con \in ConsumeChoices(p) :
           \A sel_assigned \in UniformAssignChoices(Len(Jokers(sel))),
              tokens \in TokenChoices(sel, con) :
              \A comp_assigned \in TokenAssignChoices(p, tokens, sel_assigned) :
                 C6_Holds(p, sel, sel_assigned, con, tokens, comp_assigned)

\* a composite command of client p with the given verdict
HasVerdict(p, verdict) ==
    \E sel \in SelectChoices(p), con \in ConsumeChoices(p) :
       \E sel_assigned \in UniformAssignChoices(Len(Jokers(sel))),
          tokens \in TokenChoices(sel, con) :
          \E comp_assigned \in TokenAssignChoices(p, tokens, sel_assigned) :
             composite_verdict(p, sel, sel_assigned, con, tokens, comp_assigned) = verdict

\* C6 witness: a composite math error has cost its sender the turn, and the
\* new holder has composite commands with a syntax error and with a math
\* error to send
C6_Witness ==
    /\ ev.type = "next_turn" /\ ev.who = current_turn_id /\ ev.who # ev.player
    /\ Idle(current_turn_id) /\ InRoom(current_turn_id)
    /\ field = <<>> /\ reserve = <<>>
    /\ HasVerdict(current_turn_id, "syntax")
    /\ HasVerdict(current_turn_id, "penalty")

\* C7: on a penalty the hand gains the first min(k, deck size) cards of the
\* deck, k being 1 under ALWAYS_1 and the number of played (selected) cards
\* under SAME_AS_PLAYED; the rest of the deck, then the reserve, is the new deck.
C7_PenaltyDraw ==
    [][\A p \in Clients : PenaltyStep(p) =>
          LET k == IF rule.penalty_rule = "ALWAYS_1" THEN 1 ELSE Len(ev'.cards)
              n == Min(k, Len(deck))
          IN  /\ \A c \in CardIds :
                    Count(hand'[p], c) = Count(hand[p], c) + Count(SubSeq(deck, 1, n), c)
              /\ deck' = SubSeq(deck, n + 1, Len(deck)) \o reserve
              /\ pc'[p] = "turn_wait"]_vars

\* C7 witness: under SAME_AS_PLAYED a penalty for two cards has come out of
\* a deck with a single card
C7_Witness ==
    /\ ev.type = "penalty" /\ Len(ev.cards) = 2
    /\ rule.penalty_rule = "SAME_AS_PLAYED"
    /\ pc[ev.player] = "turn_wait"
    /\ Len(hand[ev.player]) = HandSize + 1
    /\ deck = <<>>

\* C8: a next_turn with at least two waiting players and no winner hands the
\* turn to the waiting player after the holder, or to the first waiting
\* player when the holder is not one; with two duelists it goes to the other.
C8_TurnRotation ==
    [][\A p \in Clients :
          (NextTurnStep(p) /\ Len(WaitingPlayers) >= 2 /\ NoWinner) =>
             /\ current_turn_id' = Following(WaitingPlayers, current_turn_id)
             /\ (Len(WaitingPlayers) = 2 /\ current_turn_id \in Range(WaitingPlayers)) =>
                   /\ current_turn_id' # current_turn_id
                   /\ current_turn_id' \in Range(WaitingPlayers)]_vars

\* C8 witness: with a spectator in the room the turn has gone from one
\* duelist to the other
C8_Witness ==
    /\ ev.type = "next_turn" /\ ev.who = current_turn_id /\ ev.who # ev.player
    /\ Len(players) = 3 /\ Len(WaitingPlayers) = 2
    /\ \E i \in 1..2 : status[players[i]] = "watching"

\* C9: a cut leaves the turn with its player, empties field and reserve,
\* unsets last_number and puts the former reserve, then the played cards, at
\* the back of the deck; the handler goes on to the win check, which declares
\* the holder with an empty hand the winner.
C9_Cut ==
    [][\A p \in Clients :
          /\ CutStep(p) =>
                /\ current_turn_id' = current_turn_id
                /\ field' = <<>> /\ last_number' = <<>> /\ reserve' = <<>>
                /\ deck' = deck \o reserve \o ev'.cards
                /\ pc'[p] = "win_wait"
          /\ (pc[p] = "win_wait" /\ pc'[p] = "idle" /\ p = current_turn_id
                /\ hand[p] = <<>>) =>
                /\ ev'.type = "game_over" /\ ev'.who = p
                /\ state' = "waiting"]_vars

\* C9 witness: a cut over a field of two cards has emptied the hand and won
C9_Witness ==
    /\ ev.type = "game_over" /\ ev.who = ev.player
    /\ hand[ev.who] = <<>> /\ state = "waiting"
    /\ field = <<>> /\ reserve = <<>>
    /\ Len(deck) >= 4
    /\ Rank(deck[Len(deck) - 1]) = 5 /\ Rank(deck[Len(deck)]) = 7

\* C10: when a leave_room during a game leaves exactly one waiting player in
\* the room, that player is declared the winner.
C10_LastDuelistWins ==
    [][\A p \in Clients :
          (pc[p] = "leave_wait" /\ pc'[p] # "leave_wait"
             /\ state = "playing" /\ Len(WaitingPlayers) = 1)
          => (ev'.type = "game_over" /\ ev'.who = WaitingPlayers[1])]_vars

\* the step in which the handler of p runs the win check: try_end_game after
\* a cut or a joker flush, or inside a next_turn with two waiting players
WinCheckStep(p) ==
    \/ pc[p] = "win_wait" /\ pc'[p] = "idle"
    \/ NextTurnStep(p) /\ Len(WaitingPlayers) >= 2

\* the winner the win check is to declare, or NoOne
DueWinner ==
    IF Len(players) = 1 THEN players[1]
    ELSE IF InRoom(current_turn_id) /\ hand[current_turn_id] = <<>> THEN current_turn_id
    ELSE NoOne

\* C11: the win check declares the only player of the room the winner,
\* whatever that player holds, and otherwise the turn holder exactly when the
\* holder's hand is empty; with a winner the state becomes "waiting" and the
\* turn is not rotated, without one the state stays and no winner is named.
C11_WinCheck ==
    [][\A p \in Clients : WinCheckStep(p) =>
          IF DueWinner # NoOne
          THEN /\ ev'.type = "game_over" /\ ev'.who = DueWinner
               /\ state' = "waiting"
               /\ current_turn_id' = current_turn_id
          ELSE /\ state' = state
               /\ (ev' = ev \/ ev'.type = "next_turn")]_vars

\* C11 witness: the win check of a client's own handler has declared that
\* client, alone in the room with cards in hand, the winner
C11_Witness ==
    /\ ev.type = "game_over" /\ ev.player = ev.who
    /\ players = <<ev.who>> /\ hand[ev.who] # <<>>
    /\ state = "waiting" /\ pc[ev.who] = "idle"

\* C12: a prime play that fails validation never ends the handler of its
\* sender: the client can go on sending commands.
C12_ValidationNotFatal ==
    \A p \in Clients : pc[p] # "dead"

\* the step in which the handler of p takes a play past its checks
PlayStep(p) ==
    /\ pc[p] = "idle" /\ pc'[p] \in {"turn_wait", "win_wait"}
    /\ ev'.player = p
    /\ ev'.type \in {"joker_flush", "cut", "revolution", "penalty", "prime", "composite"}

\* n beats the number of the field: greater, or smaller under reverse_order
Beats(n) ==
    LET field_number == IF last_number = <<>> THEN -1 ELSE last_number[1]
    IN  IF reverse_order THEN n < field_number ELSE n > field_number

\* C13: on a field with cards, a play other than the flush of a single
\* joker assigned "inf" gets past its checks only with as many cards as the
\* field holds and, where the step records its number (a prime, a composite,
\* a revolution, a cut), with a number that beats the field's.
C13_FieldCompatibility ==
    [][\A p \in Clients :
          (PlayStep(p) /\ field # <<>>
             /\ ~(ev'.type = "joker_flush" /\ ev'.kind = "inf")) =>
             /\ Len(ev'.cards) = Len(field)
             /\ ev'.type \in {"prime", "composite", "revolution"} => Beats(last_number'[1])
             /\ ev'.type = "cut" => Beats(57)]_vars

\* C14: between two turn advances at most one draw succeeds, a cut or a
\* joker flush in between notwithstanding.
C14_DrawOncePerTurn ==
    ev.draws <= 1

\* C15: a play of a single joker is taken as a flush only when the joker is
\* assigned "inf".
C15_FlushOnlyInfinite ==
    ev.type = "joker_flush" => ev.kind = "inf"

\* the room and the hands stay as they are
RoomKept ==
    UNCHANGED <<players, status, hand, state, deck, field, reserve, last_number,
                current_turn_id, has_drawn, reverse_order>>

\* the first card of the list is a joker assigned 0
JokerZeroFirst(cards, assigned) ==
    /\ cards # <<>> /\ IsJoker(cards[1])
    /\ assigned # <<>> /\ assigned[1] = 0

\* a group of the token stream (the cards between two operators) begins
\* with a joker of the hand that is assigned 0
GroupJokerZero(h, tokens, comp_assigned) ==
    /\ Len(JokerTokens(h, tokens)) = Len(comp_assigned)
    /\ Range(TokenCards(tokens)) \subseteq Range(h)
    /\ \E i \in 1..Len(tokens) :
          /\ tokens[i].kind = "card" /\ IsJoker(tokens[i].card)
          /\ (i = 1 \/ tokens[i - 1].kind = "op")
          /\ token_card_ranks(h, tokens, comp_assigned)[tokens[i].card] = 0

\* C16: a play whose first card is a joker assigned 0, in prime mode, on the
\* selected side of composite mode or at the head of a group of the token
\* stream, changes neither the room nor a hand.
C16_LeadingZeroRejected ==
    [][\A p \in Clients : (CanPlay(p) /\ cmds' # cmds) =>
          /\ \A cards \in SeqsUpTo(Sendable(p), MaxPlay) :
                \A assigned \in AssignChoices(cards) :
                   (JokerZeroFirst(cards, assigned) /\ handle_prime_play(p, cards, assigned))
                   => RoomKept
          /\ \A sel \in SelectChoices(p), con \in ConsumeChoices(p) :
                \A sel_assigned \in UniformAssignChoices(Len(Jokers(sel))),
                   tokens \in TokenChoices(sel, con) :
                   \A comp_assigned \in TokenAssignChoices(p, tokens, sel_assigned) :
                      ((JokerZeroFirst(sel, sel_assigned)
                          \/ GroupJokerZero(hand[p], tokens, comp_assigned))
                       /\ handle_composite_play(p, sel, sel_assigned, con, tokens, comp_assigned))
                      => RoomKept]_vars

\* b^e by repeated multiplication, held at ValueCap
RECURSIVE Power(_, _)
Power(b, e) == IF e = 0 THEN 1 ELSE Min(b * Power(b, e - 1), ValueCap)

\* the tower e1^(e2^(...^ek)) folded from the right, held at MAX_EXP + 1
RECURSIVE Tower(_)
Tower(es) ==
    IF es = <<>> THEN 1
    ELSE LET t == Tower(Tail(es))
         IN  IF t > MAX_EXP THEN MAX_EXP + 1 ELSE Min(Power(Head(es), t), MAX_EXP + 1)

\* n >= 2 has no divisor d with 1 < d < n
TrialPrime(n) == n >= 2 /\ \A d \in 2..(n - 1) : n % d # 0

\* the groups of a chunk and the chunks of a stream, as the grammar cuts them
GroupsOf(chunk) == SplitAt(chunk, "^", <<>>)
ChunksOf(tokens) == SplitAt(tokens, "*", <<>>)
GroupValue(g) == JoinInt([i \in 1..Len(g) |-> g[i].card])
GroupValues(chunk) == [i \in 1..Len(GroupsOf(chunk)) |-> GroupValue(GroupsOf(chunk)[i])]

\* a stream of the grammar: chunks of groups of one or two cards
WellFormed(tokens) ==
    /\ tokens # <<>>
    /\ \A i \in 1..Len(ChunksOf(tokens)) :
          \A j \in 1..Len(GroupsOf(ChunksOf(tokens)[i])) :
             Len(GroupsOf(ChunksOf(tokens)[i])[j]) \in 1..2

\* a chunk with a prime base whose exponents and folded exponents keep to MAX_EXP
ChunkWithinCap(chunk) ==
    LET vals == GroupValues(chunk)
    IN  /\ TrialPrime(vals[1])
        /\ \A i \in 2..Len(vals) :
              vals[i] <= MAX_EXP /\ Tower(SubSeq(vals, i, Len(vals))) <= MAX_EXP

ChunkValue(chunk) == Power(GroupValues(chunk)[1], Tower(Tail(GroupValues(chunk))))

RECURSIVE ProductOf(_)
ProductOf(chunks) ==
    IF chunks = <<>> THEN 1
    ELSE LET rest == ProductOf(Tail(chunks))
             v == ChunkValue(Head(chunks))
         IN  IF rest >= ValueCap \/ v >= ValueCap THEN ValueCap
             ELSE IF v > ValueCap \div rest THEN ValueCap
             ELSE Min(v * rest, ValueCap)

\* C17: for every stream of the grammar with prime bases and exponents within
\* MAX_EXP the evaluator returns the product of the chunks' values, each
\* base^(e2^(e3^...)) with the tower folded from the right.
C17_RightAssociative ==
    (result.status # "none" /\ WellFormed(expr)
       /\ \A i \in 1..Len(ChunksOf(expr)) : ChunkWithinCap(ChunksOf(expr)[i]))
    => (result.status = "ok" /\ result.value = ProductOf(ChunksOf(expr)))

\* cards and operators take turns from the first token to the last
Alternating(tokens) ==
    /\ tokens # <<>>
    /\ tokens[1].kind = "card" /\ tokens[Len(tokens)].kind = "card"
    /\ \A i \in 1..(Len(tokens) - 1) : tokens[i].kind # tokens[i + 1].kind

\* C18: a stream of alternating cards and operators with a chunk whose base
\* is not a prime, or with an exponent or folded exponent above MAX_EXP, is a
\* math error; a stream whose last token is an operator is a syntax error.
C18_ErrorClasses ==
    result.status # "none" =>
       /\ (Alternating(expr)
              /\ \E i \in 1..Len(ChunksOf(expr)) : ~ChunkWithinCap(ChunksOf(expr)[i]))
           => result.status = "math"
       /\ (expr # <<>> /\ expr[Len(expr)].kind = "op") => result.status = "syntax"

\* C19: is_prime answers true for n in 0..MaxPrimeArg exactly when n >= 2
\* and n has no divisor d with 1 < d < n.
C19_AgreesWithTrialDivision ==
    answer # "none" => (answer = "prime" <=> TrialPrime(num))

\* a composite that no small prime divides: the rounds of check(a) decide
C19_Witness ==
    /\ answer = "composite"
    /\ num > 37
    /\ \A i \in 1..Len(SMALL_PRIMES) : num % SMALL_PRIMES[i] # 0

\* C20: while the duel is active at most two players of the room have
\* the status waiting, so the turn rotates among those two only.
C20_TwoDuelists ==
    state = "playing" => Len(WaitingPlayers) <= 2

\* C21: the field holds cards exactly when last_number is set, whatever
\* plays (the empty card list among them), flushes, passes, penalties,
\* leaves and game starts went before.
C21_FieldIffNumber ==
    (field # <<>>) <=> (last_number # <<>>)

\* a play of the empty card list has just been answered by a penalty
C21_Witness ==
    /\ ev.type = "penalty" /\ ev.cards = <<>>
    /\ field = <<>> /\ last_number = <<>>

\* every joker of the list has its integer and the digits do not begin with 0
JokersAssigned(cards, assigned) ==
    /\ Len(assigned) = Len(Jokers(cards))
    /\ ~HasInf(assigned)
    /\ ~StartsWithZero(EffectiveRanks(cards, assigned))

\* the card list goes with the field: the field is empty, or it holds as
\* many cards and n beats its number under the reverse_order in force
Compatible(cards, n) ==
    field = <<>> \/ (Len(cards) = Len(field) /\ Beats(n))

\* a prime-mode play, other than a single joker, that reads 1729 and goes
\* with the field
Is1729(p, cards, assigned) ==
    /\ has_cards(hand[p], cards)
    /\ NotSingleJoker(cards)
    /\ JokersAssigned(cards, assigned)
    /\ JoinInt(EffectiveRanks(cards, assigned)) = 1729
    /\ Compatible(cards, 1729)

C23_NoRotationAfterWin ==
    [][(deals >= 1 /\ state = "waiting" /\ state' = "waiting")
          => current_turn_id' = current_turn_id]_vars

\* a stream of the grammar: chunks between "*", each of groups between "^",
\* each group one or more card tokens
InGrammar(tokens) ==
    /\ tokens # <<>>
    /\ \A i \in 1..Len(ChunksOf(tokens)) :
          \A j \in 1..Len(GroupsOf(ChunksOf(tokens)[i])) :
             GroupsOf(ChunksOf(tokens)[i])[j] # <<>>

\* C24: the parser takes every stream of the grammar (groups of one or more
\* cards, in the first chunk or a later one; bases of 2 or more) past its
\* syntax checks, and answers every other stream with a syntax error.
C24_Grammar ==
    result.status # "none" =>
       /\ (InGrammar(expr)
              /\ \A i \in 1..Len(ChunksOf(expr)) : GroupValues(ChunksOf(expr)[i])[1] >= 2)
           => result.status # "syntax"
       /\ ~InGrammar(expr) => result.status = "syntax"

\* the step in which the handler of p accepts a composite play
CompositeStep(p) == PlayStep(p) /\ ev'.type = "composite"

\* the cards of the consume list that are not selected, in their order
ConsumedOnly(sel, con) == SelectSeq(con, LAMBDA c : c \notin Range(sel))

\* C25: an accepted composite play takes exactly the selected and the
\* consumed cards out of the hand, appends the consumed cards that are not
\* selected to the deck and nowhere else, makes the selected cards the field,
\* appends them to the reserve, which keeps what it held, sets last_number
\* to the number of the selection, and goes on to next_turn.
C25_CompositeSuccess ==
    [][\A p \in Clients : CompositeStep(p) =>
          LET sel == ev'.cards
              con == ev'.consume
          IN  /\ Range(hand'[p]) = Range(hand[p]) \ (Range(sel) \cup Range(con))
              /\ \A q \in Clients \ {p} : hand'[q] = hand[q]
              /\ deck' = deck \o ConsumedOnly(sel, con)
              /\ field' = sel
              /\ reserve' = reserve \o sel
              /\ \E a \in UniformAssignChoices(Len(Jokers(sel))) :
                    /\ JokersAssigned(sel, a)
                    /\ last_number' = <<JoinInt(EffectiveRanks(sel, a))>>
              /\ pc'[p] = "turn_wait"
              /\ current_turn_id' = current_turn_id]_vars

\* C25 witness: a composite play with a consumed card that is not selected
\* was accepted over a field; the consumed card is the last of the deck
C25_Witness ==
    /\ ev.type = "composite" /\ pc[ev.player] = "turn_wait"
    /\ ConsumedOnly(ev.cards, ev.consume) # <<>>
    /\ field = ev.cards
    /\ Len(reserve) > Len(field)
    /\ deck # <<>> /\ deck[Len(deck)] = ev.consume[Len(ev.consume)]

PassFlushStep(p) == pc[p] = "pass_pre" /\ pc'[p] = "turn_wait"

\* field, last_number and reserve are empty after the step
PilesCleared == field' = <<>> /\ last_number' = <<>> /\ reserve' = <<>>

\* C27: a cut and a joker flush put the reserve and then the played cards,
\* a pass and a penalty (after its draws from the front) the reserve, once
\* and in order, at the back of the deck, and leave field, last_number and
\* reserve empty; with an empty reserve a pass leaves the deck as it is.
C27_FlushOnce ==
    [][\A p \in Clients :
          /\ (PlayStep(p) /\ ev'.type \in {"cut", "joker_flush"}) =>
                PilesCleared /\ deck' = deck \o reserve \o ev'.cards
          /\ PassFlushStep(p) =>
                /\ PilesCleared /\ deck' = deck \o reserve
                /\ reserve = <<>> => deck' = deck
          /\ PenaltyStep(p) =>
                /\ PilesCleared
                /\ \E k \in 0..Len(deck) :
                      deck' = SubSeq(deck, k + 1, Len(deck)) \o reserve]_vars

\* C27 witness: a pass has flushed right after a joker flush; the joker is
\* the last card of the deck and is there once
C27_Witness ==
    /\ ev.type = "pass" /\ pc[ev.player] = "turn_wait"
    /\ field = <<>> /\ reserve = <<>>
    /\ deck # <<>> /\ IsJoker(deck[Len(deck)])
    /\ Count(deck, deck[Len(deck)]) = 1

\* C28: the field is the end of the reserve: its cards are the last cards
\* of the reserve, in the same order.
C28_FieldSuffixOfReserve ==
    /\ Len(field) <= Len(reserve)
    /\ field = SubSeq(reserve, Len(reserve) - Len(field) + 1, Len(reserve))

\* C28 witness: a play over a field; the reserve holds both plays
C28_Witness ==
    /\ field # <<>>
    /\ Len(reserve) > Len(field)
    /\ ev.type \in {"prime", "composite"}

\* C29: while no card has been drawn since the last game start or turn
\* advance, has_drawn is FALSE, so the first draw of the turn is not refused.
C29_FreshTurn ==
    ev.draws = 0 => has_drawn = FALSE


====
